---- MODULE Spec2Model ----
(***************************************************************************)
(* GST purchase-register vs GSTR-2B reconciliation: src/app.py (row by row *)
(* engine) and src/app2.py (merge based engine), run on the same upload.   *)
(*                                                                         *)
(* Text is a sequence of one-character strings, so that the regular        *)
(* expression of valid_gstin and the KEY concatenation are computed.       *)
(* A spreadsheet cell is a set of at most one value: {} is an empty cell   *)
(* (pandas NaN), {v} a cell holding v. The pandas calls are modelled as    *)
(* pandas 1.3 and later behave. Invoice dates are parsed and carried but   *)
(* decide nothing, and are left out; the sidebar filters are left empty.   *)
(***************************************************************************)
EXTENDS Integers, Sequences, FiniteSets, TLC

\* ---------------------------------------------------------------- bounds
MaxPurchaseRows == 2
MaxReferenceRows == 2
MaxEdits == 2

\* ----------------------------------------------------------------- cells
NaN == {}
Cell(v) == {v}
isna(c) == c = NaN
Val(c) == CHOOSE v \in c : TRUE
fillna(c, d) == IF isna(c) THEN Cell(d) ELSE c
abs(n) == IF n < 0 THEN -n ELSE n

\* str(x) / .astype(str): an empty cell prints as "nan"
str(c) == IF isna(c) THEN <<"n", "a", "n">> ELSE Val(c)

\* ------------------------------------------------------ GSTIN validation
Digit == {"0", "1", "2", "3", "4", "5", "6", "7", "8", "9"}
Upper == {"A", "B", "C", "D", "E", "F", "G", "H", "I", "J", "K", "L", "M",
          "N", "O", "P", "Q", "R", "S", "T", "U", "V", "W", "X", "Y", "Z"}

\* (mutant of pattern: the 13th class also takes 0)
MutPatternZeroEntity ==
    <<Digit, Digit, Upper, Upper, Upper, Upper, Upper, Digit, Digit, Digit,
      Digit, Upper, Digit \cup Upper, {"Z"}, Digit \cup Upper>>

\* [0-9]{2}[A-Z]{5}[0-9]{4}[A-Z]{1}[1-9A-Z]{1}Z[0-9A-Z]{1}, one class per position
pattern ==
    <<Digit, Digit, Upper, Upper, Upper, Upper, Upper, Digit, Digit, Digit,
      Digit, Upper, (Digit \ {"0"}) \cup Upper, {"Z"}, Digit \cup Upper>>

\* "$" of Python's re without MULTILINE: the end of the string, or just
\* before a newline that is the last character of the string
DollarMatches(s, pos) ==
    \/ pos = Len(s) + 1
    \/ pos = Len(s) /\ s[pos] = "\n"

\* re.match(p, s) for a pattern "^" + one class per position + "$"
re_match(p, s) ==
    /\ Len(s) >= Len(p)
    /\ \A i \in 1..Len(p) : s[i] \in p[i]
    /\ DollarMatches(s, Len(p) + 1)

valid_gstin(gstin) == re_match(pattern, str(gstin))

\* ------------------------------------------------------------ the upload
\* GSTIN and invoice-number texts the uploads are drawn from
GSTIN_OK == <<"2", "7", "A", "A", "A", "P", "L", "1", "2", "3", "4", "C", "1", "Z", "5">>
GSTIN_BAD == <<"I", "N", "V", "A", "L", "I", "D", "1", "2", "3">>
INV001 == <<"I", "N", "V", "0", "0", "1">>
INV002 == <<"I", "N", "V", "0", "0", "2">>

\* tax cells (CGST, SGST, IGST) of a row; an empty cell is a blank in the sheet
PurchaseTaxes == {<<Cell(100), Cell(100), Cell(0)>>, <<Cell(90), Cell(100), NaN>>}
ReferenceTaxes == {<<Cell(100), Cell(100), Cell(0)>>, <<Cell(100), Cell(90), NaN>>}

Row(g, n, t) ==
    [GSTIN |-> g, Invoice_Number |-> n, CGST |-> t[1], SGST |-> t[2], IGST |-> t[3]]

PurchaseRows ==
    {Row(g, n, t) : g \in {Cell(GSTIN_OK), Cell(GSTIN_BAD), NaN},
                    n \in {INV001, INV002}, t \in PurchaseTaxes}
ReferenceRows ==
    {Row(g, n, t) : g \in {Cell(GSTIN_OK), Cell(GSTIN_BAD)},
                    n \in {INV001}, t \in ReferenceTaxes}

SeqsUpTo(S, n) == UNION {[1..k -> S] : k \in 0..n}

\* column headers of a sheet after .str.strip(): for each field one of its
\* recognised spellings, or none
InvoiceNumberHeaders == {"Invoice Number", "Invoice No", "Invoice_Number"}
InvoiceDateHeaders == {"Invoice Date", "Invoice_Date"}
TaxHeaders == {"GSTIN", "CGST", "SGST", "IGST"}
CanonicalHeaders == TaxHeaders \cup {"Invoice_Number", "Invoice_Date"}
FullHeaderSets ==
    {TaxHeaders \cup {n, d, "Vendor Name"} :
        n \in InvoiceNumberHeaders, d \in InvoiceDateHeaders}
HeaderSets == FullHeaderSets \cup UNION {{f \ {h} : h \in f} : f \in FullHeaderSets}

\* ------------------------------------------------------ schema handling
\* DataFrame.rename(columns=...) applied to one header
AppRename(h) ==
    CASE h = "Invoice Number" -> "Invoice_Number"
      [] h = "Invoice No" -> "Invoice_Number"
      [] h = "Invoice Date" -> "Invoice_Date"
      [] OTHER -> h

App2Rename(h) ==
    CASE h = "Invoice Number" -> "Invoice_Number"
      [] h = "Invoice No" -> "Invoice_Number"
      [] h = "Invoice Date" -> "Invoice_Date"
      [] OTHER -> h

\* df.columns after the rename
AppColumns(file) == {AppRename(h) : h \in file.columns}
App2Columns(file) == {App2Rename(h) : h \in file.columns}

NoError == [kind |-> "none", field |-> "", dataset |-> "", text |-> ""]

\* app.py touches the columns in this order; "check" is an "in columns" test
\* answered by st.error and st.stop, "index" is df[col], which raises KeyError
AppColumnAccesses ==
    <<[df |-> "purchase", col |-> "Invoice_Date", how |-> "check"],
      [df |-> "b2b", col |-> "Invoice_Date", how |-> "check"],
      [df |-> "purchase", col |-> "CGST", how |-> "index"],
      [df |-> "b2b", col |-> "CGST", how |-> "index"],
      [df |-> "purchase", col |-> "SGST", how |-> "index"],
      [df |-> "b2b", col |-> "SGST", how |-> "index"],
      [df |-> "purchase", col |-> "IGST", how |-> "index"],
      [df |-> "b2b", col |-> "IGST", how |-> "index"],
      [df |-> "purchase", col |-> "GSTIN", how |-> "index"],
      [df |-> "purchase", col |-> "Invoice_Number", how |-> "index"],
      [df |-> "b2b", col |-> "GSTIN", how |-> "index"],
      [df |-> "b2b", col |-> "Invoice_Number", how |-> "index"]>>

required_cols == <<"GSTIN", "Invoice_Number", "Invoice_Date", "CGST", "SGST", "IGST">>

\* app2.py: for col in required_cols, the purchase file and then the 2B file
App2ColumnAccesses ==
    [k \in 1..(2 * Len(required_cols)) |->
        [df |-> IF k % 2 = 1 THEN "purchase" ELSE "b2b",
         col |-> required_cols[(k + 1) \div 2], how |-> "check"]]

Absent(a, pcols, bcols) == a.col \notin (IF a.df = "purchase" THEN pcols ELSE bcols)

\* the first access of the sequence that finds its column absent (0: none)
FirstAbsent(accesses, pcols, bcols) ==
    IF \E k \in 1..Len(accesses) : Absent(accesses[k], pcols, bcols)
    THEN CHOOSE k \in 1..Len(accesses) :
            /\ Absent(accesses[k], pcols, bcols)
            /\ \A j \in 1..(k - 1) : ~Absent(accesses[j], pcols, bcols)
    ELSE 0

\* what app.py reports for an absent column
AppSchemaError(a) ==
    IF a.how = "check"
    THEN [kind |-> "st.error", field |-> "Invoice Date",
          dataset |-> IF a.df = "purchase" THEN "Purchase Excel" ELSE "GSTR-2B Excel",
          text |-> "column not found in"]
    ELSE [kind |-> "KeyError", field |-> a.col, dataset |-> "", text |-> ""]

\* what app2.py reports for an absent column
App2SchemaError(a) ==
    [kind |-> "st.error", field |-> a.col,
     dataset |-> IF a.df = "purchase" THEN "Purchase File" ELSE "2B File",
     text |-> "Missing column in"]

\* ------------------------------------------------------- normalisation
KEY(row) == str(row.GSTIN) \o <<"_">> \o row.Invoice_Number

\* fillna(0) on the three tax columns
FillTaxes(row) ==
    [row EXCEPT !.CGST = fillna(@, 0), !.SGST = fillna(@, 0), !.IGST = fillna(@, 0)]

\* purchase_df after fillna, GSTIN_Valid and KEY
PreparePurchase(rows) ==
    [i \in 1..Len(rows) |->
        [GSTIN |-> rows[i].GSTIN, Invoice_Number |-> rows[i].Invoice_Number,
         CGST |-> FillTaxes(rows[i]).CGST, SGST |-> FillTaxes(rows[i]).SGST,
         IGST |-> FillTaxes(rows[i]).IGST,
         GSTIN_Valid |-> valid_gstin(rows[i].GSTIN), KEY |-> KEY(rows[i])]]

\* b2b_df after fillna and KEY
PrepareB2B(rows) ==
    [i \in 1..Len(rows) |->
        [GSTIN |-> rows[i].GSTIN, Invoice_Number |-> rows[i].Invoice_Number,
         CGST |-> FillTaxes(rows[i]).CGST, SGST |-> FillTaxes(rows[i]).SGST,
         IGST |-> FillTaxes(rows[i]).IGST, KEY |-> KEY(rows[i])]]

\* --------------------------------------------------- app.py: the engine
Remark(text, args) == [text |-> text, args |-> args]
NoRemark == Remark("", {})

ResultRow(row, status, remark) ==
    [GSTIN |-> row.GSTIN, Invoice_Number |-> row.Invoice_Number,
     CGST |-> row.CGST, SGST |-> row.SGST, IGST |-> row.IGST,
     Status |-> status, Remark |-> remark]

Keys(rows) == {rows[i].KEY : i \in 1..Len(rows)}

\* set_index("KEY").to_dict("index") raises ValueError unless the index is unique
IndexIsUnique(rows) ==
    \A i, j \in 1..Len(rows) : rows[i].KEY = rows[j].KEY => i = j

b2b_dict(rows) ==
    [k \in Keys(rows) |-> rows[CHOOSE i \in 1..Len(rows) : rows[i].KEY = k]]

tax_diff(row, b2b_row) ==
    abs(Val(row.CGST) - Val(b2b_row.CGST)) + abs(Val(row.SGST) - Val(b2b_row.SGST))
        + abs(Val(row.IGST) - Val(b2b_row.IGST))

\* one pass of the loop body: the if / elif / else chain and results.append
AppClassify(row, dict) ==
    IF ~row.GSTIN_Valid
    THEN ResultRow(row, "Invalid GSTIN", NoRemark)
    ELSE IF row.KEY \notin DOMAIN dict
    THEN ResultRow(row, "Missing in 2B", Remark("Invoice not available in GSTR-2B", {}))
    ELSE IF tax_diff(row, dict[row.KEY]) # 0
    THEN ResultRow(row, "Mismatch",
                   Remark("Tax Difference = ", {tax_diff(row, dict[row.KEY])}))
    ELSE ResultRow(row, "Matched", NoRemark)

AppResults(purchase, dict) == [i \in 1..Len(purchase) |-> AppClassify(purchase[i], dict)]

\* -------------------------------------------------- app2.py: the engine
\* the rows a left merge on KEY makes of one purchase row: one per 2B row of
\* that KEY, in 2B order, or one with empty _2B cells when there is none
MergeRow(row, b2b) ==
    LET m == SelectSeq(b2b, LAMBDA r : r.KEY = row.KEY)
        With(c, s, i) == [GSTIN |-> row.GSTIN, Invoice_Number |-> row.Invoice_Number,
                          CGST |-> row.CGST, SGST |-> row.SGST, IGST |-> row.IGST,
                          GSTIN_Valid |-> row.GSTIN_Valid, KEY |-> row.KEY,
                          CGST_2B |-> c, SGST_2B |-> s, IGST_2B |-> i]
    IN  IF m = <<>>
        THEN <<With(NaN, NaN, NaN)>>
        ELSE [j \in 1..Len(m) |-> With(m[j].CGST, m[j].SGST, m[j].IGST)]

RECURSIVE Merge(_, _)
Merge(purchase, b2b) ==
    IF purchase = <<>>
    THEN <<>>
    ELSE MergeRow(Head(purchase), b2b) \o Merge(Tail(purchase), b2b)

\* (a - b).abs().fillna(0): the difference with an empty cell is empty
AbsDiffFilled(a, b) == IF isna(a) \/ isna(b) THEN 0 ELSE abs(Val(a) - Val(b))

Tax_Diff(m) ==
    AbsDiffFilled(m.CGST, m.CGST_2B) + AbsDiffFilled(m.SGST, m.SGST_2B)
        + AbsDiffFilled(m.IGST, m.IGST_2B)

missing_mask(m) == isna(m.CGST_2B)
mismatch_mask(m) == Tax_Diff(m) # 0 /\ ~missing_mask(m)

\* (mutant of App2Status: the Mismatch assignment without its GSTIN_Valid mask)
MutApp2StatusNoValidGuard(m) ==
    LET s0 == [Status |-> "Matched", Remark |-> NoRemark]
        s1 == IF ~m.GSTIN_Valid THEN [s0 EXCEPT !.Status = "Invalid GSTIN"] ELSE s0
        s2 == IF missing_mask(m) /\ m.GSTIN_Valid
              THEN [Status |-> "Missing in 2B", Remark |-> Remark("Invoice not in 2B", {})]
              ELSE s1
        s3 == IF mismatch_mask(m)
              THEN [Status |-> "Mismatch", Remark |-> Remark("Tax Difference", {})]
              ELSE s2
    IN  s3

\* the .loc assignments in program order, each overwriting the one before
App2Status(m) ==
    LET s0 == [Status |-> "Matched", Remark |-> NoRemark]
        s1 == IF ~m.GSTIN_Valid THEN [s0 EXCEPT !.Status = "Invalid GSTIN"] ELSE s0
        s2 == IF missing_mask(m) /\ m.GSTIN_Valid
              THEN [Status |-> "Missing in 2B", Remark |-> Remark("Invoice not in 2B", {})]
              ELSE s1
        s3 == IF mismatch_mask(m) /\ m.GSTIN_Valid
              THEN [Status |-> "Mismatch", Remark |-> Remark("Tax Difference", {})]
              ELSE s2
    IN  s3

App2Results(merged_df) ==
    [i \in 1..Len(merged_df) |->
        ResultRow(merged_df[i], App2Status(merged_df[i]).Status,
                  App2Status(merged_df[i]).Remark)]

\* ------------------------------------------------------- the dashboard
Statuses == {"Matched", "Mismatch", "Missing in 2B", "Invalid GSTIN"}

CountStatus(rows, s) == Cardinality({i \in 1..Len(rows) : rows[i].Status = s})

\* the four st.metric cards
Metrics(rows) ==
    [Total |-> Len(rows), Matched |-> CountStatus(rows, "Matched"),
     Missing |-> CountStatus(rows, "Missing in 2B"),
     Mismatch |-> CountStatus(rows, "Mismatch")]

\* Series.value_counts(): one entry per value that occurs
value_counts(rows) ==
    [s \in {rows[i].Status : i \in 1..Len(rows)} |-> CountStatus(rows, s)]

\* groupby("GSTIN") leaves out the rows whose GSTIN cell is empty
Grouped(rows) == SelectSeq(rows, LAMBDA r : ~isna(r.GSTIN))

\* groupby("GSTIN")["Status"].value_counts().unstack().fillna(0): a row per
\* group, a column per status that occurs in some group, 0 where a group has none
vendor_summary(rows) ==
    LET kept == Grouped(rows)
    IN  [g \in {Val(kept[i].GSTIN) : i \in 1..Len(kept)} |->
            [s \in {kept[i].Status : i \in 1..Len(kept)} |->
                Cardinality({i \in 1..Len(kept) :
                                Val(kept[i].GSTIN) = g /\ kept[i].Status = s})]]

\* sorted(result_df["GSTIN"].unique()) compares an empty cell (a float) with
\* a text and raises TypeError when both occur
SortedRaises(rows) ==
    /\ \E i \in 1..Len(rows) : isna(rows[i].GSTIN)
    /\ \E i \in 1..Len(rows) : ~isna(rows[i].GSTIN)

\* ------------------------------------------------------------ the state
VARIABLES
    purchase_file,  \* the uploaded purchase register: [columns, rows]
    b2b_file,       \* the uploaded GSTR-2B sheet: [columns, rows]
    app,            \* the run of app.py on the upload
    app2,           \* the run of app2.py on the upload
    gstin,          \* a cell handed to valid_gstin
    gstin_valid,    \* what valid_gstin returned for it
    edits           \* how many edits made the cell from GSTIN_OK

vars == <<purchase_file, b2b_file, app, app2, gstin, gstin_valid, edits>>

\* a run before its first statement; pc is where the script stands:
\* "start", "normalised", "classified", "done", or ended early by
\* "stopped" (st.error and st.stop) or "raised" (an uncaught exception)
Start ==
    [pc |-> "start", error |-> NoError, purchase_df |-> <<>>, b2b_df |-> <<>>,
     result_df |-> <<>>, metrics |-> <<>>, status_counts |-> <<>>,
     vendor_summary |-> <<>>]

Raised(run, kind, field, text) ==
    [run EXCEPT !.pc = "raised",
                !.error = [kind |-> kind, field |-> field, dataset |-> "", text |-> text]]

SampleRow == Row(Cell(GSTIN_OK), INV001, <<Cell(100), Cell(100), Cell(0)>>)

Init ==
    /\ \/ /\ purchase_file \in [columns : {CanonicalHeaders},
                                rows : SeqsUpTo(PurchaseRows, MaxPurchaseRows)]
          /\ b2b_file \in [columns : {CanonicalHeaders},
                           rows : SeqsUpTo(ReferenceRows, MaxReferenceRows)]
       \/ /\ purchase_file \in [columns : HeaderSets, rows : SeqsUpTo({SampleRow}, 1)]
          /\ b2b_file \in [columns : HeaderSets, rows : SeqsUpTo({SampleRow}, 1)]
    /\ app = Start
    /\ app2 = Start
    /\ gstin = Cell(GSTIN_OK)
    /\ gstin_valid = valid_gstin(gstin)
    /\ edits = 0

\* ------------------------------------------------------ app.py, by stage
\* read both sheets, rename, check Invoice_Date, fillna, GSTIN_Valid, KEY
AppNormalise ==
    /\ app.pc = "start"
    /\ LET pcols == AppColumns(purchase_file)
           bcols == AppColumns(b2b_file)
           k == FirstAbsent(AppColumnAccesses, pcols, bcols)
       IN  app' = IF k # 0
                  THEN [app EXCEPT
                          !.pc = IF AppColumnAccesses[k].how = "check"
                                 THEN "stopped" ELSE "raised",
                          !.error = AppSchemaError(AppColumnAccesses[k])]
                  ELSE [app EXCEPT !.pc = "normalised",
                                   !.purchase_df = PreparePurchase(purchase_file.rows),
                                   !.b2b_df = PrepareB2B(b2b_file.rows)]
    /\ UNCHANGED <<purchase_file, b2b_file, app2, gstin, gstin_valid, edits>>

\* b2b_dict, the loop over purchase_df.iterrows(), result_df
AppMatchingEngine ==
    /\ app.pc = "normalised"
    /\ app' = IF ~IndexIsUnique(app.b2b_df)
              THEN Raised(app, "ValueError", "KEY",
                          "DataFrame index must be unique for orient='index'.")
              ELSE [app EXCEPT !.pc = "classified",
                               !.result_df = AppResults(app.purchase_df,
                                                        b2b_dict(app.b2b_df))]
    /\ UNCHANGED <<purchase_file, b2b_file, app2, gstin, gstin_valid, edits>>

Aggregated(run, rows) ==
    [run EXCEPT !.pc = "done", !.metrics = Metrics(rows),
                !.status_counts = value_counts(rows),
                !.vendor_summary = vendor_summary(rows)]

\* metrics, bar chart, vendor summary. pd.DataFrame([]) has no columns, so
\* result_df["Status"] raises KeyError for an empty purchase register.
AppDashboard ==
    /\ app.pc = "classified"
    /\ \/ /\ app.result_df = <<>>
          /\ app' = Raised(app, "KeyError", "Status", "")
       \/ /\ app.result_df # <<>>
          /\ app' = Aggregated(app, app.result_df)
    /\ UNCHANGED <<purchase_file, b2b_file, app2, gstin, gstin_valid, edits>>

\* ----------------------------------------------------- app2.py, by stage
\* The two scripts share no state; app2.py is run on the upload once the run
\* of app.py has ended, so that both results are there to compare.
Ended == {"done", "stopped", "raised"}

\* read both sheets, rename, required_cols validation, dates, fillna,
\* GSTIN_Valid, KEY
App2Normalise ==
    /\ app2.pc = "start"
    /\ app.pc \in Ended
    /\ LET pcols == App2Columns(purchase_file)
           bcols == App2Columns(b2b_file)
           k == FirstAbsent(App2ColumnAccesses, pcols, bcols)
       IN  app2' = IF k # 0
                   THEN [app2 EXCEPT !.pc = "stopped",
                                     !.error = App2SchemaError(App2ColumnAccesses[k])]
                   ELSE [app2 EXCEPT !.pc = "normalised",
                                     !.purchase_df = PreparePurchase(purchase_file.rows),
                                     !.b2b_df = PrepareB2B(b2b_file.rows)]
    /\ UNCHANGED <<purchase_file, b2b_file, app, gstin, gstin_valid, edits>>

\* merged_df, the priority status engine, result_df
App2MatchEngine ==
    /\ app2.pc = "normalised"
    /\ app2' = [app2 EXCEPT !.pc = "classified",
                            !.result_df = App2Results(Merge(app2.purchase_df,
                                                            app2.b2b_df))]
    /\ UNCHANGED <<purchase_file, b2b_file, app, gstin, gstin_valid, edits>>

\* the sidebar with no filter selected (filtered_df is result_df), the KPI
\* cards, bar chart and vendor summary
App2Dashboard ==
    /\ app2.pc = "classified"
    /\ \/ /\ SortedRaises(app2.result_df)
          /\ app2' = Raised(app2, "TypeError", "GSTIN",
                            "'<' not supported between instances of 'str' and 'float'")
       \/ /\ ~SortedRaises(app2.result_df)
          /\ app2' = Aggregated(app2, app2.result_df)
    /\ UNCHANGED <<purchase_file, b2b_file, app, gstin, gstin_valid, edits>>

Next ==
    \/ AppNormalise
    \/ AppMatchingEngine
    \/ AppDashboard
    \/ App2Normalise
    \/ App2MatchEngine
    \/ App2Dashboard

Spec == Init /\ [][Next]_vars

\* ------------------------------------------- valid_gstin on edited cells
\* characters an edit may put into the cell: digits 0, 1 and 9, upper and
\* lower case letters, a separator and a newline
EditChars == {"0", "1", "9", "A", "Z", "a", "_", "\n"}

InitGstin ==
    /\ purchase_file = [columns |-> CanonicalHeaders, rows |-> <<>>]
    /\ b2b_file = [columns |-> CanonicalHeaders, rows |-> <<>>]
    /\ app = Start
    /\ app2 = Start
    /\ gstin = Cell(GSTIN_OK)
    /\ gstin_valid = valid_gstin(gstin)
    /\ edits = 0

\* the cell becomes c and valid_gstin is applied to it
Validate(c) ==
    /\ edits < MaxEdits
    /\ gstin' = c
    /\ gstin_valid' = valid_gstin(c)
    /\ edits' = edits + 1
    /\ UNCHANGED <<purchase_file, b2b_file, app, app2>>

ReplaceChar ==
    /\ ~isna(gstin)
    /\ \E i \in 1..Len(Val(gstin)), c \in EditChars :
          Validate(Cell([Val(gstin) EXCEPT ![i] = c]))

AppendChar ==
    /\ ~isna(gstin)
    /\ \E c \in EditChars : Validate(Cell(Append(Val(gstin), c)))

PrependChar ==
    /\ ~isna(gstin)
    /\ \E c \in EditChars : Validate(Cell(<<c>> \o Val(gstin)))

DropLastChar ==
    /\ ~isna(gstin)
    /\ Len(Val(gstin)) > 0
    /\ Validate(Cell(SubSeq(Val(gstin), 1, Len(Val(gstin)) - 1)))

ClearCell ==
    /\ ~isna(gstin)
    /\ Validate(NaN)

NextGstin ==
    \/ ReplaceChar
    \/ AppendChar
    \/ PrependChar
    \/ DropLastChar
    \/ ClearCell

SpecGstin == InitGstin /\ [][NextGstin]_vars

\* =============================================================== claims
\* the engine of a run has produced result_df (a later exception keeps it)
Classified(run) ==
    \/ run.pc \in {"classified", "done"}
    \/ run.pc = "raised" /\ run.error.kind = "TypeError"
    \/ run.pc = "raised" /\ run.error.kind = "KeyError" /\ run.error.field = "Status"

\* the engine of a run ended in an exception instead of a result
EngineRaised(run) == run.pc = "raised" /\ run.error.kind = "ValueError"

P == PreparePurchase(purchase_file.rows)
R == PrepareB2B(b2b_file.rows)

\* result[i] carries GSTIN, invoice number and tax amounts of purchase[i]
Carries(res, pr) ==
    /\ res.GSTIN = pr.GSTIN
    /\ res.Invoice_Number = pr.Invoice_Number
    /\ res.CGST = pr.CGST /\ res.SGST = pr.SGST /\ res.IGST = pr.IGST

OneRecordPerPurchase(run) ==
    /\ ~EngineRaised(run)
    /\ Classified(run) =>
          /\ Len(run.result_df) = Len(P)
          /\ \A i \in 1..Len(P) : Carries(run.result_df[i], P[i])

RefRowsOf(k) == {j \in 1..Len(R) : R[j].KEY = k}
DuplicateKey(k) == Cardinality(RefRowsOf(k)) >= 2
LastRefOf(k) == R[CHOOSE j \in RefRowsOf(k) : \A l \in RefRowsOf(k) : l <= j]
Diff(pr, rr) ==
    abs(Val(pr.CGST) - Val(rr.CGST)) + abs(Val(pr.SGST) - Val(rr.SGST))
        + abs(Val(pr.IGST) - Val(rr.IGST))

\* C1: for every purchase table and every reference table, also one in which
\* several rows share a join key, each engine produces exactly one classified
\* record per purchase record: as many results as purchase records, the i-th
\* carrying GSTIN, invoice number and tax amounts of the i-th purchase record.
C1_OneRecordPerPurchaseRecord ==
    OneRecordPerPurchase(app) /\ OneRecordPerPurchase(app2)

\* a purchase record with a valid GSTIN and a duplicated key is compared with
\* the last reference row of that key, and with that row only
ComparedWithLast(run) ==
    /\ ~EngineRaised(run)
    /\ Classified(run) =>
          /\ Len(run.result_df) = Len(P)
          /\ \A i \in 1..Len(P) :
                (P[i].GSTIN_Valid /\ DuplicateKey(P[i].KEY)) =>
                    run.result_df[i].Status =
                        IF Diff(P[i], LastRefOf(P[i].KEY)) # 0
                        THEN "Mismatch" ELSE "Matched"

\* C2: when two or more reference rows share a join key, reconciliation
\* completes without an error and every purchase record of that key is
\* compared with the tax amounts of the last such reference row, and only it.
C2_LastDuplicateWins ==
    (\E k \in Keys(R) : DuplicateKey(k)) =>
        ComparedWithLast(app) /\ ComparedWithLast(app2)

InvalidAlwaysInvalid(run) ==
    /\ \A i \in 1..Len(run.result_df) :
          ~valid_gstin(run.result_df[i].GSTIN) =>
              /\ run.result_df[i].Status = "Invalid GSTIN"
              /\ run.result_df[i].Remark = NoRemark
    /\ Classified(run) =>
          \A j \in 1..Len(P) :
              ~valid_gstin(P[j].GSTIN) =>
                  \E i \in 1..Len(run.result_df) : Carries(run.result_df[i], P[j])

\* C3: a purchase record whose GSTIN fails format validation is classified
\* Invalid GSTIN with an empty remark by both engines, whether its join key
\* is absent from the reference, present with the same tax amounts or present
\* with other tax amounts.
C3_InvalidGstinOverrides ==
    InvalidAlwaysInvalid(app) /\ InvalidAlwaysInvalid(app2)

\* both engines have classified a purchase record with an invalid GSTIN whose
\* key is in the reference with other tax amounts, beside one whose key is absent
C3_Witness ==
    /\ app.pc = "done"
    /\ app2.pc = "classified"
    /\ \E i \in 1..Len(P) :
          /\ ~P[i].GSTIN_Valid
          /\ \E j \in 1..Len(R) : R[j].KEY = P[i].KEY /\ Diff(P[i], R[j]) # 0
    /\ \E i \in 1..Len(P) : ~P[i].GSTIN_Valid /\ P[i].KEY \notin Keys(R)

MissingExactlyWhenAbsent(run) ==
    Classified(run) =>
        \A i \in 1..Len(run.result_df) :
            valid_gstin(run.result_df[i].GSTIN) =>
                /\ run.result_df[i].Status = "Missing in 2B"
                      <=> KEY(run.result_df[i]) \notin Keys(R)
                /\ run.result_df[i].Status = "Missing in 2B" =>
                      run.result_df[i].Remark =
                          Remark("Invoice not available in GSTR-2B", {})

\* C4: a purchase record with a valid GSTIN is classified Missing in 2B if and
\* only if its join key has no entry in the reference table, and its remark is
\* then exactly "Invoice not available in GSTR-2B".
C4_MissingIn2B ==
    MissingExactlyWhenAbsent(app) /\ MissingExactlyWhenAbsent(app2)

MismatchExactlyWhenDiff(run) ==
    Classified(run) =>
        \A i \in 1..Len(run.result_df) :
            LET res == run.result_df[i]
                refs == RefRowsOf(KEY(res))
            IN  (valid_gstin(res.GSTIN) /\ Cardinality(refs) = 1) =>
                    LET d == Diff(res, R[CHOOSE j \in refs : TRUE])
                    IN  IF d # 0
                        THEN res.Status = "Mismatch" /\ d \in res.Remark.args
                        ELSE res.Status = "Matched" /\ res.Remark = NoRemark

\* C5: a purchase record with a valid GSTIN whose join key is in the reference
\* table (once) is classified Mismatch exactly when tax_diff, the sum of the
\* three absolute differences, is not 0, its remark then containing the value
\* of tax_diff; when tax_diff is 0 it is Matched with an empty remark.
C5_MismatchCarriesDifference ==
    MismatchExactlyWhenDiff(app) /\ MismatchExactlyWhenDiff(app2)

\* the required fields a file's headers do not resolve to
Unresolved(file) ==
    {required_cols[k] : k \in 1..Len(required_cols)} \ AppColumns(file)

\* the field and the dataset an error message names
NamedField(e) == IF e.field = "Invoice Date" THEN "Invoice_Date" ELSE e.field
NamedDataset(e) ==
    CASE e.dataset \in {"Purchase Excel", "Purchase File"} -> "purchase"
      [] e.dataset \in {"GSTR-2B Excel", "2B File"} -> "b2b"
      [] OTHER -> "none"

NothingProduced(run) ==
    /\ run.result_df = <<>>
    /\ run.metrics = <<>>
    /\ run.status_counts = <<>>
    /\ run.vendor_summary = <<>>

StopsWithSchemaError(run) ==
    (run.pc # "start" /\ (Unresolved(purchase_file) \cup Unresolved(b2b_file)) # {}) =>
        /\ run.pc = "stopped"
        /\ run.error.kind = "st.error"
        /\ \/ /\ NamedDataset(run.error) = "purchase"
              /\ NamedField(run.error) \in Unresolved(purchase_file)
           \/ /\ NamedDataset(run.error) = "b2b"
              /\ NamedField(run.error) \in Unresolved(b2b_file)
        /\ NothingProduced(run)

\* C6: if one of the six required fields cannot be resolved from the headers
\* of the purchase table or of the reference table, the run stops with a
\* schema error naming the missing field and its dataset, before any record
\* is classified and without a result, summary or report.
C6_SchemaErrorNamesFieldAndDataset ==
    StopsWithSchemaError(app) /\ StopsWithSchemaError(app2)

\* the form of a GSTIN that valid_gstin accepts, position by position
GstinForm(s) ==
    /\ Len(s) >= 15
    /\ s[1] \in Digit /\ s[2] \in Digit
    /\ \A i \in 3..7 : s[i] \in Upper
    /\ \A i \in 8..11 : s[i] \in Digit
    /\ s[12] \in Upper
    /\ s[13] \in (Digit \cup Upper) \ {"0"}
    /\ s[14] = "Z"
    /\ s[15] \in Digit \cup Upper

\* the form the claim gives: the 13th character is any of 0-9 or A-Z
ClaimedGstinForm(s) ==
    /\ Len(s) = 15
    /\ s[1] \in Digit /\ s[2] \in Digit
    /\ \A i \in 3..7 : s[i] \in Upper
    /\ \A i \in 8..11 : s[i] \in Digit
    /\ s[12] \in Upper
    /\ s[13] \in Digit \cup Upper
    /\ s[14] = "Z"
    /\ s[15] \in Digit \cup Upper

\* C7 as stated: valid_gstin accepts a value if and only if it is exactly 15
\* characters: 2 digits, 5 upper case letters, 4 digits, 1 upper case letter,
\* 1 character of 0-9 or A-Z, Z, 1 character of 0-9 or A-Z.
C7_AcceptsExactlyClaimedForm ==
    gstin_valid <=> (~isna(gstin) /\ ClaimedGstinForm(Val(gstin)))

\* C7 as amended: valid_gstin accepts a value if and only if it is text of
\* 2 digits, 5 upper case letters, 4 digits, 1 upper case letter, 1 character
\* of 1-9 or A-Z (not 0), Z, 1 character of 0-9 or A-Z, and nothing more
\* except, optionally, one newline at the very end.
C7_AcceptsExactlyCodeForm ==
    gstin_valid <=>
        /\ ~isna(gstin)
        /\ GstinForm(Val(gstin))
        /\ \/ Len(Val(gstin)) = 15
           \/ Len(Val(gstin)) = 16 /\ Val(gstin)[16] = "\n"

\* an edited cell, other than the one the edits began with, was accepted,
\* and so was one with a trailing newline
C7_Witness ==
    /\ edits = 2
    /\ gstin_valid
    /\ Len(Val(gstin)) = 16
    /\ SubSeq(Val(gstin), 1, 15) # GSTIN_OK

RECURSIVE SumOver(_, _)
SumOver(f, S) ==
    IF S = {} THEN 0
    ELSE LET x == CHOOSE y \in S : TRUE IN f[x] + SumOver(f, S \ {x})

RowTotal(summary, g) == SumOver(summary[g], DOMAIN summary[g])
Carrying(g) == Cardinality({i \in 1..Len(P) : P[i].GSTIN = g})

SummaryConserves(run) ==
    run.pc = "done" =>
        LET vs == run.vendor_summary
            totals == [g \in DOMAIN vs |-> RowTotal(vs, g)]
        IN  /\ \A i \in 1..Len(P) : ~isna(P[i].GSTIN) => Val(P[i].GSTIN) \in DOMAIN vs
            /\ \A g \in DOMAIN vs : totals[g] = Carrying(Cell(g)) /\ totals[g] > 0
            /\ SumOver(totals, DOMAIN vs) = Len(P)

\* C8: the vendor summary has one row for each distinct GSTIN of the
\* purchase records and no other, the counts of a row sum to the number of
\* purchase records of that GSTIN, and the counts of all rows sum to the
\* number of purchase records, also with empty or invalid GSTINs among them.
C8_VendorSummaryConserves ==
    SummaryConserves(app) /\ SummaryConserves(app2)

ZeroFilled(run) ==
    run.pc = "done" =>
        /\ DOMAIN run.status_counts = Statuses
        /\ \A g \in DOMAIN run.vendor_summary :
              DOMAIN run.vendor_summary[g] = Statuses

\* C9: the status counts and every row of the vendor summary have an entry
\* for each of the four statuses, with count 0 for a status no record holds.
C9_EveryStatusPresent ==
    ZeroFilled(app) /\ ZeroFilled(app2)

\* C10: on an upload with all required columns both engines produce results
\* of the same length whose i-th records have the same GSTIN, invoice number
\* and status.
C10_EnginesAgree ==
    Classified(app2) =>
        /\ Classified(app)
        /\ Len(app.result_df) = Len(app2.result_df)
        /\ \A i \in 1..Len(app.result_df) :
              /\ app.result_df[i].GSTIN = app2.result_df[i].GSTIN
              /\ app.result_df[i].Invoice_Number = app2.result_df[i].Invoice_Number
              /\ app.result_df[i].Status = app2.result_df[i].Status

====
